---- MODULE Spec2Model ----
(***************************************************************************)
(* Raksha API (src/main.py): a REST facade over a document store.          *)
(*                                                                         *)
(* Two specifications share the store and the helper operators:            *)
(*   Spec      one request at a time, each handler run to completion;      *)
(*   SpecConc  several workers, each handler split at its store            *)
(*             round-trips (count_documents, find, insert_many).           *)
(***************************************************************************)
EXTENDS Integers, Sequences, FiniteSets, TLC

VARIABLES
    dbConfigured,   \* whether database.db is a live handle (truthy) or None
    store,          \* collection name -> sequence of documents, insertion order
    nextId,         \* the next ObjectId the store hands out
    clock,          \* the time source create_document stamps documents with
    req,            \* Spec: the request handled last
    resp,           \* Spec: the response to req
    seedRuns,       \* Spec: how many POST /api/seed calls ran back to back just now
    task            \* SpecConc: worker -> the request it is handling and its position

vars == <<dbConfigured, store, nextId, clock, req, resp, seedRuns, task>>

----------------------------------------------------------------------------
(* Bounds of the model *)

MaxCreates == 1     \* documents inserted through the POST handlers
MaxLimit == 2       \* largest limit query parameter tried
MaxSkip == 1        \* largest skip query parameter tried
NumWorkers == 2     \* concurrent requests in SpecConc

----------------------------------------------------------------------------
(* Python values *)

\* Python's None, for Optional[str] parameters and fields.
NoneVal == "<None>"

\* `if q:` on an Optional[str]: None and the empty string are falsy.
Truthy(s) == s # NoneVal /\ s # ""

Min(a, b) == IF a < b THEN a ELSE b

Abs(n) == IF n < 0 THEN 0 - n ELSE n

\* The i-th character of a string.
CharAt(s, i) == SubSeq(s, i, i)

----------------------------------------------------------------------------
(* bson.ObjectId: 12 bytes, written as 24 hexadecimal digits.  The model   *)
(* keeps the 12 bytes as the natural number they encode.                   *)

HexDigits == "0123456789abcdef"

HexDigitsUpper == "0123456789ABCDEF"

IsHexChar(c) ==
    \E k \in 1..16 : CharAt(HexDigits, k) = c \/ CharAt(HexDigitsUpper, k) = c

HexCharVal(c) ==
    (CHOOSE k \in 1..16 : CharAt(HexDigits, k) = c \/ CharAt(HexDigitsUpper, k) = c) - 1

Zeros == "000000000000000000000000"

\* n in hexadecimal, zero-padded to width digits.
RECURSIVE HexStr(_, _)
HexStr(n, width) ==
    IF width = 0 THEN ""
    ELSE IF n = 0 THEN SubSeq(Zeros, 1, width)
    ELSE HexStr(n \div 16, width - 1) \o CharAt(HexDigits, (n % 16) + 1)

RECURSIVE HexVal(_, _)
HexVal(s, len) ==
    IF len = 0 THEN 0
    ELSE 16 * HexVal(s, len - 1) + HexCharVal(CharAt(s, len))

\* str(ObjectId)
OidStr(oid) == HexStr(oid.oid, 24)

\* ObjectId.is_valid on a str: exactly 24 hexadecimal digits.
IsValidOid(s) == Len(s) = 24 /\ \A i \in 1..24 : IsHexChar(CharAt(s, i))

\* ObjectId(s) for a valid s.
ObjectId(s) == [oid |-> HexVal(s, 24)]

----------------------------------------------------------------------------
(* Identifier normalizer *)

\* The result of find_one when nothing matches (None), and the empty dict:
\* both are falsy for `if not doc`.
NoDoc == << >>

to_public(doc) ==
    IF DOMAIN doc = {}
    THEN [ok |-> TRUE, val |-> doc]
    ELSE IF "_id" \in DOMAIN doc
         THEN [ok |-> TRUE,
               val |-> [k \in (DOMAIN doc \ {"_id"}) \cup {"id"} |->
                           IF k = "id" THEN OidStr(doc["_id"]) ELSE doc[k]]]
         ELSE [ok |-> FALSE, val |-> "KeyError: '_id'"]

----------------------------------------------------------------------------
(* The document store (pymongo) as the handlers use it *)

UpperChars == "ABCDEFGHIJKLMNOPQRSTUVWXYZ"

LowerChars == "abcdefghijklmnopqrstuvwxyz"

Lower(c) ==
    IF \E k \in 1..26 : CharAt(UpperChars, k) = c
    THEN CharAt(LowerChars, CHOOSE k \in 1..26 : CharAt(UpperChars, k) = c)
    ELSE c

\* {"$regex": pat, "$options": "i"} for patterns made of literal characters
\* and the wildcard ".": an unanchored, case-insensitive search.
RegexSearch(pat, s) ==
    \E i \in 1..(Len(s) + 1) :
        /\ i + Len(pat) - 1 <= Len(s)
        /\ \A j \in 1..Len(pat) :
              \/ CharAt(pat, j) = "."
              \/ Lower(CharAt(pat, j)) = Lower(CharAt(s, i + j - 1))

\* Whether document d satisfies the filter: every key's constraint holds.
Matches(filt, d) ==
    \A k \in DOMAIN filt :
        /\ k \in DOMAIN d
        /\ IF filt[k].op = "regex"
           THEN RegexSearch(filt[k].v, d[k])
           ELSE d[k] = filt[k].v

count_documents(coll, filt) ==
    Cardinality({i \in 1..Len(coll) : Matches(filt, coll[i])})

find(coll, filt) == SelectSeq(coll, LAMBDA d : Matches(filt, d))

\* Cursor.skip(n), n >= 0 (a negative n raises ValueError before this).
cursor_skip(docs, skip) == SubSeq(docs, skip + 1, Len(docs))

\* Cursor.limit(n): 0 is "no limit"; a negative n is sent as abs(n) in a
\* single batch.
cursor_limit(docs, limit) ==
    IF limit = 0 THEN docs ELSE SubSeq(docs, 1, Min(Abs(limit), Len(docs)))

find_one(coll, oid) ==
    IF \E i \in 1..Len(coll) : coll[i]["_id"] = oid
    THEN coll[CHOOSE i \in 1..Len(coll) :
                 /\ coll[i]["_id"] = oid
                 /\ \A j \in 1..(i - 1) : coll[j]["_id"] # oid]
    ELSE NoDoc

\* insert_many: each document gets the next ObjectId and is appended.
insert_many(coll, docs, first) ==
    coll \o [i \in 1..Len(docs) |->
                [k \in DOMAIN docs[i] \cup {"_id"} |->
                    IF k = "_id" THEN [oid |-> first + i - 1] ELSE docs[i][k]]]

----------------------------------------------------------------------------
(* Query builders of the list handlers *)

EqualTo(v) == [op |-> "eq", v |-> v]

Regex(v) == [op |-> "regex", v |-> v]

medicines_filt(q, category) ==
    [k \in (IF Truthy(q) THEN {"name"} ELSE {})
           \cup (IF Truthy(category) THEN {"category"} ELSE {}) |->
        IF k = "name" THEN Regex(q) ELSE EqualTo(category)]

doctors_filt(q, specialty) ==
    [k \in (IF Truthy(q) THEN {"name"} ELSE {})
           \cup (IF Truthy(specialty) THEN {"specialty"} ELSE {}) |->
        IF k = "name" THEN Regex(q) ELSE EqualTo(specialty)]

prescriptions_filt(user_id) == [user_id |-> EqualTo(user_id)]

consultations_filt(user_id, doctor_id) ==
    [k \in (IF Truthy(user_id) THEN {"user_id"} ELSE {})
           \cup (IF Truthy(doctor_id) THEN {"doctor_id"} ELSE {}) |->
        IF k = "user_id" THEN EqualTo(user_id) ELSE EqualTo(doctor_id)]

orders_filt(user_id) == [user_id |-> EqualTo(user_id)]

----------------------------------------------------------------------------
(* Data: the demo documents of seed_basic, a catalogue the store may       *)
(* already hold when the service starts, and the request inputs tried.     *)

SeedMedicines ==
    << [name |-> "Paracetamol", brand |-> "Acme Pharma", category |-> "Pain Relief",
        price |-> "2.99", stock |-> 120, requires_rx |-> FALSE],
       [name |-> "Amoxicillin", brand |-> "Acme Pharma", category |-> "Antibiotics",
        price |-> "5.49", stock |-> 80, requires_rx |-> TRUE] >>

SeedDoctors ==
    << [name |-> "Dr. A. Mehta", specialty |-> "Cardiologist", experience_years |-> 12,
        rating |-> "4.8", fee |-> "25.0", languages |-> <<"en", "hi">>],
       [name |-> "Dr. S. Rao", specialty |-> "Dermatologist", experience_years |-> 8,
        rating |-> "4.6", fee |-> "20.0", languages |-> <<"en">>] >>

\* Two antibiotics and one pain-reliever, inserted before the service started.
StockedMedicines ==
    << [name |-> "Amoxicillin", brand |-> NoneVal, category |-> "Antibiotics",
        price |-> "5.49", stock |-> 80, requires_rx |-> TRUE],
       [name |-> "Ibuprofen", brand |-> NoneVal, category |-> "Pain Relief",
        price |-> "3.10", stock |-> 40, requires_rx |-> FALSE],
       [name |-> "Azithromycin", brand |-> NoneVal, category |-> "Antibiotics",
        price |-> "7.25", stock |-> 15, requires_rx |-> TRUE] >>

\* Records of user u2, created through the POST handlers before the service
\* was last restarted (at clock 0).
StockedPrescriptions ==
    << [user_id |-> "u2", doctor_id |-> NoneVal, notes |-> NoneVal, file_url |-> NoneVal,
        status |-> "pending", created_at |-> 0, updated_at |-> 0] >>

StockedConsultations ==
    << [user_id |-> "u2", doctor_id |-> "d1", mode |-> "video",
        datetime_iso |-> "2026-01-05T10:00:00", status |-> "scheduled",
        created_at |-> 0, updated_at |-> 0] >>

StockedOrders ==
    << [user_id |-> "u2",
        items |-> <<[medicine_id |-> "000000000000000000000001", name |-> "Amoxicillin",
                     price |-> "5.49", quantity |-> 1]>>,
        total_amount |-> "5.49", address |-> "4 Lake View", payment_method |-> "upi",
        status |-> "placed", prescription_id |-> NoneVal,
        created_at |-> 0, updated_at |-> 0] >>

Users == {"u1", "u2"}

QInputs == {NoneVal, "", "MOX"}

CategoryInputs == {NoneVal, "", "Antibiotics"}

SpecialtyInputs == {NoneVal, "", "Cardiologist"}

UserIdInputs == {""} \cup Users

OptionalUserIdInputs == {NoneVal, "", "u1"}

DoctorIdInputs == {NoneVal, "", "d1"}

Limits == (0 - 1)..MaxLimit

Skips == 0..MaxSkip

\* Path parameters tried on the get-by-id routes: the text of every ObjectId
\* handed out so far and of the next one, and two strings that encode none.
IdInputs ==
    {OidStr([oid |-> n]) : n \in 1..nextId} \cup {"bogus", "zzzzzzzzzzzzzzzzzzzzzzzz"}

PrescriptionPayloads ==
    {[user_id |-> u, doctor_id |-> d, notes |-> NoneVal, file_url |-> NoneVal,
      status |-> "pending"] : u \in {"u1"}, d \in {NoneVal, "d1"}}

ConsultationPayloads ==
    {[user_id |-> u, doctor_id |-> d, mode |-> "video",
      datetime_iso |-> "2026-01-05T10:00:00", status |-> "scheduled"] :
        u \in {"u1"}, d \in {"d1", "d2"}}

OrderPayloads ==
    {[user_id |-> u,
      items |-> <<[medicine_id |-> OidStr([oid |-> 1]), name |-> "Paracetamol",
                   price |-> "2.99", quantity |-> 2]>>,
      total_amount |-> "5.98", address |-> "12 Hill Road", payment_method |-> "cod",
      status |-> "placed", prescription_id |-> NoneVal] : u \in {"u1"}}

\* Documents inserted through the POST handlers since the service started.
Created == clock - 1

EmptyStore ==
    [c \in {"medicine", "doctor", "prescription", "consultation", "order"} |-> << >>]

StockedStore ==
    [medicine |-> insert_many(<< >>, StockedMedicines, 1),
     doctor |-> << >>,
     prescription |-> insert_many(<< >>, StockedPrescriptions, 4),
     consultation |-> insert_many(<< >>, StockedConsultations, 5),
     order |-> insert_many(<< >>, StockedOrders, 6)]

StockedNextId ==
    1 + Len(StockedMedicines) + Len(StockedPrescriptions)
      + Len(StockedConsultations) + Len(StockedOrders)

----------------------------------------------------------------------------
(* Responses *)

Ok(body) == [status |-> 200, body |-> body]

Err(status, detail) == [status |-> status, body |-> [detail |-> detail]]

\* An exception no handler catches: the framework answers 500.
Unhandled == Err(500, "Internal Server Error")

\* items = [to_public(x) for x in cursor]
PublicItems(docs) == [i \in 1..Len(docs) |-> to_public(docs[i]).val]

\* The tail of every list handler: {"total": total, "items": items}.
Paginated(total, page) ==
    IF \A i \in 1..Len(page) : to_public(page[i]).ok
    THEN Ok([total |-> total, items |-> PublicItems(page)])
    ELSE Unhandled

\* db.<coll>.find(filt).skip(skip).limit(limit), iterated.
Page(coll, filt, skip, limit) == cursor_limit(cursor_skip(find(coll, filt), skip), limit)

\* A list handler run to completion on collection coll.
ListResponse(coll, filt, limit, skip) ==
    IF ~dbConfigured THEN Ok([total |-> 0, items |-> << >>])
    ELSE IF skip < 0 THEN Unhandled
    ELSE Paginated(count_documents(coll, filt), Page(coll, filt, skip, limit))

\* A get-by-id handler run to completion on collection coll.
GetResponse(coll, id, what) ==
    IF ~dbConfigured THEN Err(500, "Database not configured")
    ELSE IF ~IsValidOid(id) THEN Unhandled
    ELSE LET doc == find_one(coll, ObjectId(id)) IN
         IF DOMAIN doc = {} THEN Err(404, what \o " not found")
         ELSE IF to_public(doc).ok THEN Ok(to_public(doc).val)
         ELSE Unhandled

\* database.create_document: the payload's fields plus created_at and
\* updated_at, inserted as one new document.
create_document(coll, payload) ==
    insert_many(coll,
                <<[k \in DOMAIN payload \cup {"created_at", "updated_at"} |->
                      IF k \in {"created_at", "updated_at"} THEN clock ELSE payload[k]]>>,
                nextId)

----------------------------------------------------------------------------
(* Spec: the handlers, one request at a time *)

Init ==
    /\ dbConfigured \in BOOLEAN
    /\ \/ /\ store = EmptyStore
          /\ nextId = 1
       \/ /\ store = StockedStore
          /\ nextId = StockedNextId
    /\ clock = 1
    /\ req = [kind |-> "none"]
    /\ resp = [status |-> 0, body |-> << >>]
    /\ seedRuns = 0
    /\ task = [w \in 1..NumWorkers |-> [pc |-> "idle"]]

\* A read-only request answered.
Answer(request, response) ==
    /\ req.kind = "none"
    /\ req' = request
    /\ resp' = response
    /\ seedRuns' = 0
    /\ UNCHANGED <<dbConfigured, store, nextId, clock, task>>

list_medicines ==
    \E q \in QInputs, category \in CategoryInputs, limit \in Limits, skip \in Skips :
        Answer([kind |-> "list", entity |-> "medicine",
                params |-> [q |-> q, category |-> category],
                limit |-> limit, skip |-> skip],
               ListResponse(store["medicine"], medicines_filt(q, category), limit, skip))

get_medicine ==
    \E id \in IdInputs :
        Answer([kind |-> "get", entity |-> "medicine", id |-> id],
               GetResponse(store["medicine"], id, "Medicine"))

list_doctors ==
    \E q \in QInputs, specialty \in SpecialtyInputs, limit \in Limits, skip \in Skips :
        Answer([kind |-> "list", entity |-> "doctor",
                params |-> [q |-> q, specialty |-> specialty],
                limit |-> limit, skip |-> skip],
               ListResponse(store["doctor"], doctors_filt(q, specialty), limit, skip))

get_doctor ==
    \E id \in IdInputs :
        Answer([kind |-> "get", entity |-> "doctor", id |-> id],
               GetResponse(store["doctor"], id, "Doctor"))

list_prescriptions ==
    \E user_id \in UserIdInputs, limit \in Limits, skip \in Skips :
        Answer([kind |-> "list", entity |-> "prescription",
                params |-> [user_id |-> user_id],
                limit |-> limit, skip |-> skip],
               ListResponse(store["prescription"], prescriptions_filt(user_id), limit, skip))

list_consultations ==
    \E user_id \in OptionalUserIdInputs, doctor_id \in DoctorIdInputs,
       limit \in Limits, skip \in Skips :
        Answer([kind |-> "list", entity |-> "consultation",
                params |-> [user_id |-> user_id, doctor_id |-> doctor_id],
                limit |-> limit, skip |-> skip],
               ListResponse(store["consultation"],
                            consultations_filt(user_id, doctor_id), limit, skip))

list_orders ==
    \E user_id \in UserIdInputs, limit \in Limits, skip \in Skips :
        Answer([kind |-> "list", entity |-> "order",
                params |-> [user_id |-> user_id],
                limit |-> limit, skip |-> skip],
               ListResponse(store["order"], orders_filt(user_id), limit, skip))

\* GET /api/prescriptions/{id}, /api/consultations/{id}, /api/orders/{id}:
\* no such route is registered, so the router answers 404.
route_not_found ==
    \E entity \in {"prescription", "consultation", "order"}, id \in IdInputs :
        Answer([kind |-> "get", entity |-> entity, id |-> id], Err(404, "Not Found"))

\* A POST handler: new_id = create_document(name, payload); {"id": new_id}.
Create(entity, payload) ==
    /\ req.kind = "none"
    /\ req' = [kind |-> "create", entity |-> entity, payload |-> payload]
    /\ seedRuns' = 0
    /\ IF dbConfigured
       THEN /\ Created < MaxCreates
            /\ store' = [store EXCEPT ![entity] = create_document(@, payload)]
            /\ nextId' = nextId + 1
            /\ clock' = clock + 1
            /\ resp' = Ok([id |-> OidStr([oid |-> nextId])])
       ELSE /\ resp' = Err(500, "Database not available")
            /\ UNCHANGED <<store, nextId, clock>>
    /\ UNCHANGED <<dbConfigured, task>>

create_prescription == \E payload \in PrescriptionPayloads : Create("prescription", payload)

create_consultation == \E payload \in ConsultationPayloads : Create("consultation", payload)

create_order == \E payload \in OrderPayloads : Create("order", payload)

\* Mutant: the emptiness check is dropped.
SeedAlways(coll, docs, first) == insert_many(coll, docs, first)

\* Mutant: seeding resets a collection that already holds documents.
SeedReset(coll, docs, first) == insert_many(<< >>, docs, first)

\* if db.<coll>.count_documents({}) == 0: db.<coll>.insert_many(docs)
SeedIfEmpty(coll, docs, first) ==
    IF count_documents(coll, << >>) = 0 THEN insert_many(coll, docs, first) ELSE coll

seed_basic ==
    /\ req.kind = "none"
    /\ req' = [kind |-> "seed"]
    /\ seedRuns' = Min(seedRuns + 1, 2)
    /\ IF dbConfigured
       THEN LET medicine == SeedIfEmpty(store["medicine"], SeedMedicines, nextId)
                after == nextId + Len(medicine) - Len(store["medicine"])
                doctor == SeedIfEmpty(store["doctor"], SeedDoctors, after)
            IN /\ store' = [store EXCEPT !["medicine"] = medicine, !["doctor"] = doctor]
               /\ nextId' = after + Len(doctor) - Len(store["doctor"])
               /\ resp' = Ok([message |-> "Seeded demo data (if collections were empty)"])
       ELSE /\ resp' = Err(500, "Database not configured")
            /\ UNCHANGED <<store, nextId>>
    /\ UNCHANGED <<dbConfigured, clock, task>>

\* The framework sends the response; the handler's locals are gone.
send_response ==
    /\ req.kind # "none"
    /\ req' = [kind |-> "none"]
    /\ resp' = [status |-> 0, body |-> << >>]
    /\ UNCHANGED <<dbConfigured, store, nextId, clock, seedRuns, task>>

Next ==
    \/ list_medicines
    \/ get_medicine
    \/ list_doctors
    \/ get_doctor
    \/ list_prescriptions
    \/ create_prescription
    \/ list_consultations
    \/ create_consultation
    \/ list_orders
    \/ create_order
    \/ route_not_found
    \/ seed_basic
    \/ send_response

Spec == Init /\ [][Next]_vars

----------------------------------------------------------------------------
(* SpecConc: the same handlers run by concurrent workers.  A handler is    *)
(* split where it calls the store: nothing orders one request's calls      *)
(* against another's.                                                      *)

Workers == 1..NumWorkers

Idle == [pc |-> "idle"]

\* The requests the workers are given.
ConcListRequests ==
    {[kind |-> "list", entity |-> "medicine", params |-> [q |-> NoneVal, category |-> c],
      limit |-> MaxLimit, skip |-> 0] : c \in {NoneVal, "Antibiotics"}}
    \cup {[kind |-> "list", entity |-> "doctor",
           params |-> [q |-> NoneVal, specialty |-> NoneVal],
           limit |-> MaxLimit, skip |-> 0]}
    \cup {[kind |-> "list", entity |-> e, params |-> [user_id |-> "u1"],
           limit |-> MaxLimit, skip |-> 0] : e \in {"prescription", "order"}}
    \cup {[kind |-> "list", entity |-> "consultation",
           params |-> [user_id |-> "u1", doctor_id |-> NoneVal],
           limit |-> MaxLimit, skip |-> 0]}

\* The filter the list handler of r's entity builds from r's parameters.
FiltOf(r) ==
    CASE r.entity = "medicine" -> medicines_filt(r.params.q, r.params.category)
      [] r.entity = "doctor" -> doctors_filt(r.params.q, r.params.specialty)
      [] r.entity = "prescription" -> prescriptions_filt(r.params.user_id)
      [] r.entity = "consultation" ->
            consultations_filt(r.params.user_id, r.params.doctor_id)
      [] r.entity = "order" -> orders_filt(r.params.user_id)

InitConc ==
    /\ dbConfigured \in BOOLEAN
    /\ store = EmptyStore
    /\ nextId = 1
    /\ clock = 1
    /\ req = [kind |-> "none"]
    /\ resp = [status |-> 0, body |-> << >>]
    /\ seedRuns = 0
    /\ task = [w \in Workers |-> Idle]

Done(request, response) == [pc |-> "done", req |-> request, resp |-> response]

\* A list request arrives and the handler runs up to and including
\* total = db.<coll>.count_documents(filt).
ListCount(w) ==
    \E r \in ConcListRequests :
        /\ task[w].pc = "idle"
        /\ task' = [task EXCEPT ![w] =
              IF ~dbConfigured THEN Done(r, Ok([total |-> 0, items |-> << >>]))
              ELSE [pc |-> "find", req |-> r,
                    total |-> count_documents(store[r.entity], FiltOf(r))]]
        /\ UNCHANGED <<dbConfigured, store, nextId, clock, req, resp, seedRuns>>

\* cursor = db.<coll>.find(filt).skip(skip).limit(limit), the normalisation of
\* its documents and the return.
ListFind(w) ==
    /\ task[w].pc = "find"
    /\ LET r == task[w].req IN
       task' = [task EXCEPT ![w] =
          Done(r, IF r.skip < 0 THEN Unhandled
                  ELSE Paginated(task[w].total,
                                 Page(store[r.entity], FiltOf(r), r.skip, r.limit)))]
    /\ UNCHANGED <<dbConfigured, store, nextId, clock, req, resp, seedRuns>>

\* get_medicine and get_doctor make one store call.
GetById(w) ==
    \E entity \in {"medicine", "doctor"}, id \in IdInputs :
        /\ task[w].pc = "idle"
        /\ task' = [task EXCEPT ![w] =
              Done([kind |-> "get", entity |-> entity, id |-> id],
                   GetResponse(store[entity], id,
                               IF entity = "medicine" THEN "Medicine" ELSE "Doctor"))]
        /\ UNCHANGED <<dbConfigured, store, nextId, clock, req, resp, seedRuns>>

\* The POST handlers make one store call, the insert.
CreateDoc(w) ==
    \E entity \in {"prescription", "consultation", "order"} :
      \E payload \in (CASE entity = "prescription" -> PrescriptionPayloads
                        [] entity = "consultation" -> ConsultationPayloads
                        [] entity = "order" -> OrderPayloads) :
        /\ task[w].pc = "idle"
        /\ IF dbConfigured
           THEN /\ Created < MaxCreates
                /\ store' = [store EXCEPT ![entity] = create_document(@, payload)]
                /\ nextId' = nextId + 1
                /\ clock' = clock + 1
                /\ task' = [task EXCEPT ![w] =
                      Done([kind |-> "create", entity |-> entity, payload |-> payload],
                           Ok([id |-> OidStr([oid |-> nextId])]))]
           ELSE /\ task' = [task EXCEPT ![w] =
                      Done([kind |-> "create", entity |-> entity, payload |-> payload],
                           Err(500, "Database not available"))]
                /\ UNCHANGED <<store, nextId, clock>>
        /\ UNCHANGED <<dbConfigured, req, resp, seedRuns>>

\* seed_basic up to and including db.medicine.count_documents({}) == 0.
SeedCountMedicine(w) ==
    /\ task[w].pc = "idle"
    /\ task' = [task EXCEPT ![w] =
          IF ~dbConfigured
          THEN Done([kind |-> "seed"], Err(500, "Database not configured"))
          ELSE IF count_documents(store["medicine"], << >>) = 0
               THEN [pc |-> "insert_medicine", req |-> [kind |-> "seed"]]
               ELSE [pc |-> "count_doctor", req |-> [kind |-> "seed"]]]
    /\ UNCHANGED <<dbConfigured, store, nextId, clock, req, resp, seedRuns>>

\* db.medicine.insert_many([...])
SeedInsertMedicine(w) ==
    /\ task[w].pc = "insert_medicine"
    /\ store' = [store EXCEPT !["medicine"] = insert_many(@, SeedMedicines, nextId)]
    /\ nextId' = nextId + Len(SeedMedicines)
    /\ task' = [task EXCEPT ![w] = [pc |-> "count_doctor", req |-> [kind |-> "seed"]]]
    /\ UNCHANGED <<dbConfigured, clock, req, resp, seedRuns>>

\* db.doctor.count_documents({}) == 0
SeedCountDoctor(w) ==
    /\ task[w].pc = "count_doctor"
    /\ task' = [task EXCEPT ![w] =
          IF count_documents(store["doctor"], << >>) = 0
          THEN [pc |-> "insert_doctor", req |-> [kind |-> "seed"]]
          ELSE Done([kind |-> "seed"],
                    Ok([message |-> "Seeded demo data (if collections were empty)"]))]
    /\ UNCHANGED <<dbConfigured, store, nextId, clock, req, resp, seedRuns>>

\* db.doctor.insert_many([...]) and the return.
SeedInsertDoctor(w) ==
    /\ task[w].pc = "insert_doctor"
    /\ store' = [store EXCEPT !["doctor"] = insert_many(@, SeedDoctors, nextId)]
    /\ nextId' = nextId + Len(SeedDoctors)
    /\ task' = [task EXCEPT ![w] =
          Done([kind |-> "seed"],
               Ok([message |-> "Seeded demo data (if collections were empty)"]))]
    /\ UNCHANGED <<dbConfigured, clock, req, resp, seedRuns>>

\* The framework sends the worker's response; the worker is free again.
Return(w) ==
    /\ task[w].pc = "done"
    /\ task' = [task EXCEPT ![w] = Idle]
    /\ UNCHANGED <<dbConfigured, store, nextId, clock, req, resp, seedRuns>>

NextConc ==
    \E w \in Workers :
        \/ ListCount(w)
        \/ ListFind(w)
        \/ GetById(w)
        \/ CreateDoc(w)
        \/ SeedCountMedicine(w)
        \/ SeedInsertMedicine(w)
        \/ SeedCountDoctor(w)
        \/ SeedInsertDoctor(w)
        \/ Return(w)

SpecConc == InitConc /\ [][NextConc]_vars

----------------------------------------------------------------------------
(* Properties of Spec: one request at a time *)

\* A list request was answered from the store.
ListAnswered == req.kind = "list" /\ dbConfigured /\ resp.status = 200

\* What a request's parameters ask for, read off the parameters themselves:
\* q is a case-insensitive search in name, every other parameter an exact
\* match of the field it is named after, and an absent or empty parameter
\* asks for nothing.
Satisfies(r, d) ==
    \A k \in DOMAIN r.params :
        Truthy(r.params[k]) =>
            IF k = "q" THEN RegexSearch(r.params[k], d["name"]) ELSE d[k] = r.params[k]

MatchingDocs(r) == SelectSeq(store[r.entity], LAMBDA d : Satisfies(r, d))

\* Positions skip .. skip+limit-1 (counted from 0) of a sequence.
Window(docs, skip, limit) ==
    IF limit <= 0 \/ skip >= Len(docs) THEN << >>
    ELSE SubSeq(docs, skip + 1, Min(skip + limit, Len(docs)))

\* C1: a list call with skip >= 0 returns at most limit items, whatever
\* integer limit the handler accepts.  (Stated for limit >= 0: no list of
\* items is shorter than a negative limit.)
C1_ItemsAtMostLimit ==
    (ListAnswered /\ req.skip >= 0 /\ req.limit >= 0)
        => Len(resp.body.items) <= req.limit

\* C3: with no concurrent writes a list call answers with total = the number
\* of stored documents satisfying every supplied parameter, and with items =
\* the matching documents at positions skip .. skip+limit-1 of insertion order.
C3_ListContract ==
    (req.kind = "list" /\ dbConfigured /\ req.skip >= 0 /\ req.limit >= 0)
        => /\ resp.status = 200
           /\ resp.body.total = Len(MatchingDocs(req))
           /\ resp.body.items = PublicItems(Window(MatchingDocs(req), req.skip, req.limit))

\* The part of C3 the handlers do meet: a positive limit, and no empty
\* user_id on the two handlers that require user_id.
ListContractPositiveLimit ==
    (/\ req.kind = "list" /\ dbConfigured /\ req.skip >= 0 /\ req.limit > 0
     /\ (req.entity \in {"prescription", "order"} => req.params.user_id # ""))
        => /\ resp.status = 200
           /\ resp.body.total = Len(MatchingDocs(req))
           /\ resp.body.items = PublicItems(Window(MatchingDocs(req), req.skip, req.limit))

\* C4: when every filter parameter of a list call is absent or empty, total
\* is the size of the collection and a page wide enough holds every document.
C4_OpenFilter ==
    (ListAnswered /\ \A k \in DOMAIN req.params : ~Truthy(req.params[k]))
        => /\ resp.body.total = Len(store[req.entity])
           /\ (req.skip = 0 /\ req.limit >= Len(store[req.entity]) /\ req.limit > 0)
                 => Len(resp.body.items) = Len(store[req.entity])

\* C5: to_public is idempotent: on the result of to_public(d), d any stored
\* document, it completes and returns that result unchanged.
C5_NormalizerIdempotent ==
    \A c \in DOMAIN store : \A i \in 1..Len(store[c]) :
        LET once == to_public(store[c][i]) IN
            /\ once.ok
            /\ to_public(once.val).ok
            /\ to_public(once.val).val = once.val

\* C6: get-by-id on medicines or doctors answers an id that encodes no
\* ObjectId with a 4xx status, and a well-formed id of no document with 404.
C6_BadIdIsClientError ==
    (req.kind = "get" /\ req.entity \in {"medicine", "doctor"} /\ dbConfigured)
        => IF ~IsValidOid(req.id)
           THEN resp.status \in 400..499
           ELSE (\A i \in 1..Len(store[req.entity]) :
                    store[req.entity][i]["_id"] # ObjectId(req.id))
                => resp.status = 404

\* C7: a POST /api/seed that directly follows another POST /api/seed inserts
\* nothing: the store after it is the store before it.
C7_SecondSeedInsertsNothing ==
    [][(req'.kind = "seed" /\ seedRuns' = 2) => (store' = store /\ nextId' = nextId)]_vars

C7_SecondSeedDone ==
    /\ req.kind = "seed" /\ seedRuns = 2 /\ dbConfigured /\ resp.status = 200
    /\ Len(store["medicine"]) >= 2 /\ Len(store["doctor"]) = 2

\* C8: get-by-id of an entity that has a create operation, called with the id
\* create returned, answers the created document: the payload, its id and its
\* timestamps.
C8_CreateThenGetRoundTrips ==
    (req.kind = "get" /\ dbConfigured
     /\ req.entity \in {"prescription", "consultation", "order"})
        => \A i \in 1..Len(store[req.entity]) :
              OidStr(store[req.entity][i]["_id"]) = req.id
                  => /\ resp.status = 200
                     /\ resp.body = to_public(store[req.entity][i]).val

\* No two documents of a collection share an _id.
UniqueIds(st) ==
    \A c \in DOMAIN st : \A i, j \in 1..Len(st[c]) :
        st[c][i]["_id"] = st[c][j]["_id"] => i = j

\* C9: stored data is append-only: every request leaves each document that
\* was in a collection in place, with its _id and field values, and _ids stay
\* unique within a collection.
C9_AppendOnly ==
    [][/\ \A c \in DOMAIN store :
             /\ Len(store'[c]) >= Len(store[c])
             /\ \A i \in 1..Len(store[c]) : store'[c][i] = store[c][i]
       /\ UniqueIds(store')]_vars

\* Documents were created and seeded, and a stored document was retrieved
\* and normalised.
C9_ReadAfterWrites ==
    /\ Created >= 1 /\ Len(store["doctor"]) = 2
    /\ req.kind \in {"get", "list"} /\ resp.status = 200
    /\ (req.kind = "list" => Len(resp.body.items) >= 1)

----------------------------------------------------------------------------
(* Properties of SpecConc: concurrent requests *)

\* C2: every list call returns at most total items, also when requests that
\* insert into the same collection run between its count and its find.
C2_ItemsAtMostTotal ==
    \A w \in Workers :
        (task[w].pc = "done" /\ task[w].req.kind = "list" /\ task[w].resp.status = 200)
            => Len(task[w].resp.body.items) <= task[w].resp.body.total

\* C10: seeding is idempotent under concurrency: from empty collections,
\* once a seed request has completed and none is under way, the store holds
\* exactly the two demo medicines and the two demo doctors.
C10_SeedOnceUnderRace ==
    (/\ \E w \in Workers :
            task[w].pc = "done" /\ task[w].req.kind = "seed" /\ task[w].resp.status = 200
     /\ \A w \in Workers :
            task[w].pc \notin {"insert_medicine", "count_doctor", "insert_doctor"})
        => /\ [i \in 1..Len(store["medicine"]) |-> store["medicine"][i]["name"]]
                 = <<"Paracetamol", "Amoxicillin">>
           /\ [i \in 1..Len(store["doctor"]) |-> store["doctor"][i]["name"]]
                 = <<"Dr. A. Mehta", "Dr. S. Rao">>

====
